---- MODULE Spec2Model ----
(***************************************************************************)
(* A model of the transaction engine's ledger state machine:               *)
(*   account.rs      Account and its arithmetic operations                 *)
(*   transaction.rs  Transaction and TransactionState                      *)
(*   state.rs        State::update, the transition function                *)
(*   engine.rs       SyncEngine::process_all, SingleThreadedEngine and     *)
(*                   MultiThreadedEngine                                   *)
(*                                                                         *)
(* Amounts are fixed-point decimals.  An Amount is kept in sign-magnitude  *)
(* form because the code branches on the sign bit (is_sign_negative,       *)
(* is_sign_positive) and negates stored amounts, so +0 and -0 differ.      *)
(* Account balances only take part in comparisons and additions, so they   *)
(* are kept as integers (the number of units).                             *)
(*                                                                         *)
(* Every record constructor lists its fields in the order in which the     *)
(* field names first occur in this module, the order TLC keeps records in. *)
(***************************************************************************)
EXTENDS Integers, Sequences, FiniteSets, TLC

\* ---- bounds of the model ----
MaxAmt == 2         \* the largest amount an action carries, in units
MaxSteps == 4       \* State::update calls in one behaviour
MaxLen == 3         \* the length of process_all's input
MaxThreads == 2     \* threads sharing the MultiThreadedEngine's state
MaxSubmit == 3      \* process calls the threads make in one behaviour

\* ClientId(u16), TransactionId(u32) (lib.rs): ids are only compared for
\* equality, two of each are told apart
ClientId == {1, 2}
TransactionId == {1, 2}

\* Amount (lib.rs): a signed decimal, as sign bit and magnitude in units.
Amt(n) == IF n < 0 THEN [neg |-> TRUE, mag |-> 0 - n] ELSE [neg |-> FALSE, mag |-> n]
NegZero == [neg |-> TRUE, mag |-> 0]
\* the amounts of the model: +0 .. MaxAmt, and the sign-negative -0 and -1
Amount == {Amt(n) : n \in 0..MaxAmt} \cup {NegZero, Amt(0 - 1)}

is_sign_negative(a) == a.neg
is_sign_positive(a) == ~a.neg
\* unary minus on an Amount flips the sign bit
Negate(a) == [neg |-> ~a.neg, mag |-> a.mag]
\* the numeric value of an Amount
Val(a) == IF a.neg THEN 0 - a.mag ELSE a.mag

\* Option<Amount>: <<>> is None, <<a>> is Some(a)
None == <<>>
Some(a) == <<a>>

\* ---- action.rs ----
ActionKind == {"Deposit", "Withdrawal", "Dispute", "Resolve", "Chargeback"}

\* struct Action
MkAction(k, c, t, m) ==
    [transaction_id |-> t, client_id |-> c, kind |-> k, amount |-> m]

\* ---- account.rs ----
Locked == "Locked"
InsufficientFunds == "InsufficientFunds"
NegativeAmount == "NegativeAmount"
AccountError == {Locked, InsufficientFunds, NegativeAmount}

\* Account::default()
DefaultAccount == [available |-> 0, held |-> 0, locked |-> FALSE]

total_funds(acct) == acct.available + acct.held

\* Result of an account operation: the account afterwards and Ok or the error
AOk(acct) == [acct |-> acct, res |-> "Ok"]
AErr(acct, e) == [acct |-> acct, res |-> e]

\* deposit without the lock check
deposit_ignores_lock(acct, amount) ==
    IF is_sign_negative(amount) THEN AErr(acct, NegativeAmount)
    ELSE AOk([acct EXCEPT !.available = @ + Val(amount)])

\* deposit that tests the amount's sign before the lock
deposit_sign_first(acct, amount) ==
    IF is_sign_negative(amount) THEN AErr(acct, NegativeAmount)
    ELSE IF acct.locked THEN AErr(acct, Locked)
    ELSE AOk([acct EXCEPT !.available = @ + Val(amount)])

deposit(acct, amount) ==
    IF acct.locked THEN AErr(acct, Locked)
    ELSE IF is_sign_negative(amount) THEN AErr(acct, NegativeAmount)
    ELSE AOk([acct EXCEPT !.available = @ + Val(amount)])

\* withdraw without the funds check
withdraw_unchecked(acct, amount) ==
    IF acct.locked THEN AErr(acct, Locked)
    ELSE IF is_sign_negative(amount) THEN AErr(acct, NegativeAmount)
    ELSE AOk([acct EXCEPT !.available = @ - Val(amount)])

\* withdraw that compares the amount with the total funds, held included
withdraw_checks_total(acct, amount) ==
    IF acct.locked THEN AErr(acct, Locked)
    ELSE IF is_sign_negative(amount) THEN AErr(acct, NegativeAmount)
    ELSE IF Val(amount) > total_funds(acct) THEN AErr(acct, InsufficientFunds)
    ELSE AOk([acct EXCEPT !.available = @ - Val(amount)])

withdraw(acct, amount) ==
    IF acct.locked THEN AErr(acct, Locked)
    ELSE IF is_sign_negative(amount) THEN AErr(acct, NegativeAmount)
    ELSE IF Val(amount) > acct.available THEN AErr(acct, InsufficientFunds)
    ELSE AOk([acct EXCEPT !.available = @ - Val(amount)])

\* hold that credits held without debiting available
hold_no_debit(acct, amount) ==
    IF acct.locked THEN AErr(acct, Locked)
    ELSE IF is_sign_negative(amount) THEN AErr(acct, NegativeAmount)
    ELSE IF Val(amount) > acct.available THEN AErr(acct, InsufficientFunds)
    ELSE AOk([acct EXCEPT !.held = @ + Val(amount)])

\* hold that debits available without crediting held
hold_no_credit(acct, amount) ==
    IF acct.locked THEN AErr(acct, Locked)
    ELSE IF is_sign_negative(amount) THEN AErr(acct, NegativeAmount)
    ELSE IF Val(amount) > acct.available THEN AErr(acct, InsufficientFunds)
    ELSE AOk([acct EXCEPT !.available = @ - Val(amount)])

hold(acct, amount) ==
    IF acct.locked THEN AErr(acct, Locked)
    ELSE IF is_sign_negative(amount) THEN AErr(acct, NegativeAmount)
    ELSE IF Val(amount) > acct.available THEN AErr(acct, InsufficientFunds)
    ELSE AOk([acct EXCEPT !.available = @ - Val(amount),
                          !.held = @ + Val(amount)])

\* release that frees the funds without returning them to available
release_drops_funds(acct, amount) ==
    IF acct.locked THEN AErr(acct, Locked)
    ELSE IF is_sign_negative(amount) THEN AErr(acct, NegativeAmount)
    ELSE IF Val(amount) > acct.held THEN AErr(acct, InsufficientFunds)
    ELSE AOk([acct EXCEPT !.held = @ - Val(amount)])

release(acct, amount) ==
    IF acct.locked THEN AErr(acct, Locked)
    ELSE IF is_sign_negative(amount) THEN AErr(acct, NegativeAmount)
    ELSE IF Val(amount) > acct.held THEN AErr(acct, InsufficientFunds)
    ELSE AOk([acct EXCEPT !.held = @ - Val(amount),
                          !.available = @ + Val(amount)])

chargeback(acct, amount) ==
    IF acct.locked THEN AErr(acct, Locked)
    ELSE IF is_sign_negative(amount) THEN AErr(acct, NegativeAmount)
    ELSE IF Val(amount) > acct.held THEN AErr(acct, InsufficientFunds)
    ELSE AOk([acct EXCEPT !.held = @ - Val(amount)])

\* lock that leaves the flag as it is
lock_forgets(acct) == acct

lock(acct) == [acct EXCEPT !.locked = TRUE]

\* ---- transaction.rs ----
Succeeded == <<"Succeeded">>
Failed(e) == <<"Failed", e>>
Disputed == <<"Disputed">>
Cancelled == <<"Cancelled">>
TransactionState == {Succeeded, Disputed, Cancelled} \cup {Failed(e) : e \in AccountError}

\* struct Transaction
Transaction(id, client, state, amount) ==
    [amount |-> amount, id |-> id, client |-> client, state |-> state]

\* ---- state.rs ----
\* UpdateError
NoAmount == "NoAmount"
TransactionUsed == "TransactionUsed"
TransactionMissing == "TransactionMissing"
AccountMissing == "AccountMissing"
ClientMismatch == "ClientMismatch"
UpdateError == {NoAmount, TransactionUsed, TransactionMissing, AccountMissing, ClientMismatch}

\* State::new(): both maps empty.  A map is a function on the set of its keys.
EmptyMap == <<>>
NewState == [accounts |-> EmptyMap, transactions |-> EmptyMap]

\* HashMap insert / overwrite of one key
Put(m, k, v) == [x \in DOMAIN m \cup {k} |-> IF x = k THEN v ELSE m[x]]

\* accounts.entry(client).or_default(): the account, created if absent
or_default(accts, c) == IF c \in DOMAIN accts THEN accts[c] ELSE DefaultAccount

\* Result of State::update: the store afterwards and Ok or the UpdateError
UOk(accts, txs) == [accounts |-> accts, transactions |-> txs, result |-> "Ok"]
UErr(st, e) == [accounts |-> st.accounts, transactions |-> st.transactions, result |-> e]

\* Ok(()) => ok, Err(e) => Failed(e)
StateOf(r, ok) == IF r.res = "Ok" THEN ok ELSE Failed(r.res)

\* Deposit that creates the account (or_default) before the id check
UpdateDeposit_creates_first(st, action) ==
    IF action.amount = None THEN UErr(st, NoAmount)
    ELSE IF action.transaction_id \in DOMAIN st.transactions
         THEN [accounts |-> Put(st.accounts, action.client_id,
                                or_default(st.accounts, action.client_id)),
               transactions |-> st.transactions,
               result |-> TransactionUsed]
    ELSE LET amount == action.amount[1]
             r == deposit(or_default(st.accounts, action.client_id), amount)
         IN UOk(Put(st.accounts, action.client_id, r.acct),
                Put(st.transactions, action.transaction_id,
                    Transaction(action.transaction_id, action.client_id,
                                StateOf(r, Succeeded), amount)))

\* Deposit that returns the account's error to the caller (deposit(amount)?)
\* instead of recording it
UpdateDeposit_propagates(st, action) ==
    IF action.amount = None THEN UErr(st, NoAmount)
    ELSE IF action.transaction_id \in DOMAIN st.transactions THEN UErr(st, TransactionUsed)
    ELSE LET amount == action.amount[1]
             r == deposit(or_default(st.accounts, action.client_id), amount)
         IN IF r.res # "Ok"
            THEN [accounts |-> Put(st.accounts, action.client_id, r.acct),
                  transactions |-> st.transactions,
                  result |-> r.res]
            ELSE UOk(Put(st.accounts, action.client_id, r.acct),
                     Put(st.transactions, action.transaction_id,
                         Transaction(action.transaction_id, action.client_id,
                                     Succeeded, amount)))

\* Deposit that inserts its transaction without the test for a used id
UpdateDeposit_overwrites(st, action) ==
    IF action.amount = None THEN UErr(st, NoAmount)
    ELSE LET amount == action.amount[1]
             r == deposit(or_default(st.accounts, action.client_id), amount)
         IN UOk(Put(st.accounts, action.client_id, r.acct),
                Put(st.transactions, action.transaction_id,
                    Transaction(action.transaction_id, action.client_id,
                                StateOf(r, Succeeded), amount)))

\* Deposit that creates the account only when the deposit succeeds
UpdateDeposit_account_on_success(st, action) ==
    IF action.amount = None THEN UErr(st, NoAmount)
    ELSE IF action.transaction_id \in DOMAIN st.transactions THEN UErr(st, TransactionUsed)
    ELSE LET amount == action.amount[1]
             r == deposit(or_default(st.accounts, action.client_id), amount)
         IN UOk(IF r.res = "Ok" THEN Put(st.accounts, action.client_id, r.acct)
                ELSE st.accounts,
                Put(st.transactions, action.transaction_id,
                    Transaction(action.transaction_id, action.client_id,
                                StateOf(r, Succeeded), amount)))

UpdateDeposit(st, action) ==
    IF action.amount = None THEN UErr(st, NoAmount)
    ELSE IF action.transaction_id \in DOMAIN st.transactions THEN UErr(st, TransactionUsed)
    ELSE LET amount == action.amount[1]
             r == deposit(or_default(st.accounts, action.client_id), amount)
         IN UOk(Put(st.accounts, action.client_id, r.acct),
                Put(st.transactions, action.transaction_id,
                    Transaction(action.transaction_id, action.client_id,
                                StateOf(r, Succeeded), amount)))

\* Withdrawal that creates the account before it looks at the amount
UpdateWithdrawal_creates_first(st, action) ==
    IF action.amount = None
    THEN [accounts |-> Put(st.accounts, action.client_id,
                           or_default(st.accounts, action.client_id)),
          transactions |-> st.transactions,
          result |-> NoAmount]
    ELSE IF action.transaction_id \in DOMAIN st.transactions THEN UErr(st, TransactionUsed)
    ELSE LET amount == action.amount[1]
             r == withdraw(or_default(st.accounts, action.client_id), amount)
         IN UOk(Put(st.accounts, action.client_id, r.acct),
                Put(st.transactions, action.transaction_id,
                    Transaction(action.transaction_id, action.client_id,
                                StateOf(r, Succeeded), Negate(amount))))

\* Withdrawal that stores the amount as given, without the negation
UpdateWithdrawal_stores_amount(st, action) ==
    IF action.amount = None THEN UErr(st, NoAmount)
    ELSE IF action.transaction_id \in DOMAIN st.transactions THEN UErr(st, TransactionUsed)
    ELSE LET amount == action.amount[1]
             r == withdraw(or_default(st.accounts, action.client_id), amount)
         IN UOk(Put(st.accounts, action.client_id, r.acct),
                Put(st.transactions, action.transaction_id,
                    Transaction(action.transaction_id, action.client_id,
                                StateOf(r, Succeeded), amount)))

\* Withdrawal that looks the account up as Dispute does (get_mut, else
\* AccountMissing) instead of creating it
UpdateWithdrawal_requires_account(st, action) ==
    IF action.amount = None THEN UErr(st, NoAmount)
    ELSE IF action.transaction_id \in DOMAIN st.transactions THEN UErr(st, TransactionUsed)
    ELSE IF action.client_id \notin DOMAIN st.accounts THEN UErr(st, AccountMissing)
    ELSE LET amount == action.amount[1]
             r == withdraw(st.accounts[action.client_id], amount)
         IN UOk(Put(st.accounts, action.client_id, r.acct),
                Put(st.transactions, action.transaction_id,
                    Transaction(action.transaction_id, action.client_id,
                                StateOf(r, Succeeded), Negate(amount))))

UpdateWithdrawal(st, action) ==
    IF action.amount = None THEN UErr(st, NoAmount)
    ELSE IF action.transaction_id \in DOMAIN st.transactions THEN UErr(st, TransactionUsed)
    ELSE LET amount == action.amount[1]
             r == withdraw(or_default(st.accounts, action.client_id), amount)
         IN UOk(Put(st.accounts, action.client_id, r.acct),
                Put(st.transactions, action.transaction_id,
                    Transaction(action.transaction_id, action.client_id,
                                StateOf(r, Succeeded), Negate(amount))))

\* Dispute without the client check: the hold goes to the owner's account
UpdateDispute_no_client_check(st, action) ==
    IF action.transaction_id \notin DOMAIN st.transactions THEN UErr(st, TransactionMissing)
    ELSE LET transaction == st.transactions[action.transaction_id] IN
         IF transaction.client \notin DOMAIN st.accounts THEN UErr(st, AccountMissing)
         ELSE IF is_sign_positive(transaction.amount)
              THEN LET r == hold(st.accounts[transaction.client], transaction.amount)
                   IN UOk(Put(st.accounts, transaction.client, r.acct),
                          Put(st.transactions, action.transaction_id,
                              [transaction EXCEPT !.state = StateOf(r, Disputed)]))
              ELSE UOk(st.accounts, st.transactions)

UpdateDispute(st, action) ==
    IF action.transaction_id \notin DOMAIN st.transactions THEN UErr(st, TransactionMissing)
    ELSE LET transaction == st.transactions[action.transaction_id] IN
         IF action.client_id # transaction.client THEN UErr(st, ClientMismatch)
         ELSE IF action.client_id \notin DOMAIN st.accounts THEN UErr(st, AccountMissing)
         ELSE IF is_sign_positive(transaction.amount)
              THEN LET r == hold(st.accounts[action.client_id], transaction.amount)
                   IN UOk(Put(st.accounts, action.client_id, r.acct),
                          Put(st.transactions, action.transaction_id,
                              [transaction EXCEPT !.state = StateOf(r, Disputed)]))
              ELSE UOk(st.accounts, st.transactions)

\* Resolve without the client check, releasing on the owner's account
UpdateResolve_owner_account(st, action) ==
    IF action.transaction_id \notin DOMAIN st.transactions THEN UErr(st, TransactionMissing)
    ELSE LET transaction == st.transactions[action.transaction_id] IN
         IF transaction.state # Disputed THEN UOk(st.accounts, st.transactions)
         ELSE IF transaction.client \notin DOMAIN st.accounts THEN UErr(st, AccountMissing)
         ELSE LET r == release(st.accounts[transaction.client], transaction.amount)
              IN UOk(Put(st.accounts, transaction.client, r.acct),
                     Put(st.transactions, action.transaction_id,
                         [transaction EXCEPT !.state = StateOf(r, Succeeded)]))

UpdateResolve(st, action) ==
    IF action.transaction_id \notin DOMAIN st.transactions THEN UErr(st, TransactionMissing)
    ELSE LET transaction == st.transactions[action.transaction_id] IN
         IF transaction.state # Disputed THEN UOk(st.accounts, st.transactions)
         ELSE IF action.client_id # transaction.client THEN UErr(st, ClientMismatch)
         ELSE IF action.client_id \notin DOMAIN st.accounts THEN UErr(st, AccountMissing)
         ELSE LET r == release(st.accounts[action.client_id], transaction.amount)
              IN UOk(Put(st.accounts, action.client_id, r.acct),
                     Put(st.transactions, action.transaction_id,
                         [transaction EXCEPT !.state = StateOf(r, Succeeded)]))

\* Chargeback without the test that the transaction is Disputed
UpdateChargeback_any_state(st, action) ==
    IF action.transaction_id \notin DOMAIN st.transactions THEN UErr(st, TransactionMissing)
    ELSE LET transaction == st.transactions[action.transaction_id] IN
         IF action.client_id # transaction.client THEN UErr(st, ClientMismatch)
         ELSE IF action.client_id \notin DOMAIN st.accounts THEN UErr(st, AccountMissing)
         ELSE LET r == chargeback(st.accounts[action.client_id], transaction.amount)
              IN UOk(Put(st.accounts, action.client_id, lock(r.acct)),
                     Put(st.transactions, action.transaction_id,
                         [transaction EXCEPT !.state = StateOf(r, Cancelled)]))

UpdateChargeback(st, action) ==
    IF action.transaction_id \notin DOMAIN st.transactions THEN UErr(st, TransactionMissing)
    ELSE LET transaction == st.transactions[action.transaction_id] IN
         IF transaction.state # Disputed THEN UOk(st.accounts, st.transactions)
         ELSE IF action.client_id # transaction.client THEN UErr(st, ClientMismatch)
         ELSE IF action.client_id \notin DOMAIN st.accounts THEN UErr(st, AccountMissing)
         ELSE LET r == chargeback(st.accounts[action.client_id], transaction.amount)
              IN UOk(Put(st.accounts, action.client_id, lock(r.acct)),
                     Put(st.transactions, action.transaction_id,
                         [transaction EXCEPT !.state = StateOf(r, Cancelled)]))

\* State::update
update(st, action) ==
    CASE action.kind = "Deposit" -> UpdateDeposit(st, action)
      [] action.kind = "Withdrawal" -> UpdateWithdrawal(st, action)
      [] action.kind = "Dispute" -> UpdateDispute(st, action)
      [] action.kind = "Resolve" -> UpdateResolve(st, action)
      [] action.kind = "Chargeback" -> UpdateChargeback(st, action)

\* the store part of an update's result
StoreOf(u) == [accounts |-> u.accounts, transactions |-> u.transactions]

\* the store after applying a sequence of actions one at a time, each result dropped
RECURSIVE ApplyAll(_, _)
ApplyAll(st, actions) ==
    IF actions = <<>> THEN st
    ELSE ApplyAll(StoreOf(update(st, Head(actions))), Tail(actions))

\* every action the model submits: deposits and withdrawals with any amount
\* or none, disputes, resolves and chargebacks without one
OptAmount == {None} \cup {Some(a) : a \in Amount}
Action ==
    {MkAction(k, c, t, m) : k \in {"Deposit", "Withdrawal"}, c \in ClientId,
                            t \in TransactionId, m \in OptAmount}
    \cup {MkAction(k, c, t, None) : k \in {"Dispute", "Resolve", "Chargeback"},
                                   c \in ClientId, t \in TransactionId}

\* ---- engine.rs ----
\* process that hands the update's result to its caller
process_propagates(updateResult) == updateResult

\* SingleThreadedEngine::process and MultiThreadedEngine::process: the
\* update's result is dropped (let _ = ...) and Ok(()) is returned.
process(updateResult) == "Ok"

\* a write guard handed out whatever the lock's state
write_unguarded(g) == TRUE

\* RwLock::write: the exclusive guard is handed out when no guard is held
write(g) == g = 0

VARIABLES
    accounts,       \* State.accounts: ClientId -> Account
    transactions,   \* State.transactions: TransactionId -> Transaction
    action,         \* the action of the last State::update call, None before the first
    result,         \* what that call returned
    pre,            \* the store as it was when that call started
    steps,          \* the number of State::update calls so far
    settled,        \* per client: the amounts of its deposits that succeeded, less
                    \* those of its withdrawals and chargebacks that succeeded
    input,          \* process_all: the actions it was given
    pos,            \* process_all: the position in input of the next action
    run,            \* process_all: "running", "returned_err" or "done"
    guard,          \* RwLock<State>: the thread holding the write guard, 0 if none
    pc,             \* per thread: "idle", "waiting" (in write()), "locked" (guard
                    \* held) or "updated"
    pending,        \* per thread: the action its process call was given
    order           \* the threads and their actions, in the order in which they
                    \* acquired the write guard

storeVars == <<accounts, transactions>>
histVars == <<action, result, pre, steps, settled>>
driverVars == <<input, pos, run>>
mtVars == <<guard, pc, pending, order>>
vars == <<accounts, transactions, action, result, pre, steps, settled, input, pos,
          run, guard, pc, pending, order>>

store == [accounts |-> accounts, transactions |-> transactions]

Threads == 1..MaxThreads

\* State::new(), before any call
InitStore ==
    /\ accounts = NewState.accounts
    /\ transactions = NewState.transactions
    /\ action = None
    /\ result = "Ok"
    /\ pre = NewState
    /\ steps = 0
    /\ settled = [c \in ClientId |-> 0]

NoDriver == input = <<>> /\ pos = 1 /\ run = "running"

NoThreads ==
    /\ guard = 0
    /\ pc = [t \in Threads |-> "idle"]
    /\ pending = [t \in Threads |-> None]
    /\ order = <<>>

\* ---- any sequence of State::update calls on one store ----
Init == InitStore /\ NoDriver /\ NoThreads

\* what the call of action a that took the store st to u settles for a's
\* client: the amount of a deposit that succeeded, minus the amount of a
\* withdrawal that succeeded, minus the amount of the transaction of a
\* chargeback that succeeded, 0 for every other call
Settles(st, a, u) ==
    LET t == a.transaction_id
        fresh == a.amount # None /\ t \notin DOMAIN st.transactions
    IN IF a.kind \in {"Deposit", "Withdrawal"}
       THEN IF /\ fresh
               /\ t \in DOMAIN u.transactions
               /\ u.transactions[t].state = Succeeded
            THEN (IF a.kind = "Deposit" THEN Val(a.amount[1]) ELSE 0 - Val(a.amount[1]))
            ELSE 0
       ELSE IF /\ a.kind = "Chargeback"
               /\ t \in DOMAIN st.transactions
               /\ st.transactions[t].state = Disputed
               /\ st.transactions[t].client = a.client_id
               /\ u.transactions[t].state = Cancelled
            THEN 0 - Val(st.transactions[t].amount)
            ELSE 0

\* one call of State::update
Update(a) ==
    /\ steps < MaxSteps
    /\ LET u == update(store, a) IN
        /\ accounts' = u.accounts
        /\ transactions' = u.transactions
        /\ result' = u.result
        /\ settled' = [settled EXCEPT ![a.client_id] = @ + Settles(store, a, u)]
    /\ action' = Some(a)
    /\ pre' = store
    /\ steps' = steps + 1
    /\ UNCHANGED <<driverVars, mtVars>>

Deposits == {a \in Action : a.kind = "Deposit"}
Withdrawals == {a \in Action : a.kind = "Withdrawal"}
Disputes == {a \in Action : a.kind = "Dispute"}
Resolves == {a \in Action : a.kind = "Resolve"}
Chargebacks == {a \in Action : a.kind = "Chargeback"}

Deposit == \E a \in Deposits : Update(a)
Withdrawal == \E a \in Withdrawals : Update(a)
Dispute == \E a \in Disputes : Update(a)
Resolve == \E a \in Resolves : Update(a)
Chargeback == \E a \in Chargebacks : Update(a)

Next == Deposit \/ Withdrawal \/ Dispute \/ Resolve \/ Chargeback

Spec == Init /\ [][Next]_vars

\* ---- SyncEngine::process_all on a SingleThreadedEngine ----
\* the actions the driver is given: client 1's
\* deposits and withdrawals of one unit or of no amount, its disputes,
\* resolves and chargebacks, and client 2's disputes
InputAction ==
    {a \in Action : a.client_id = 1 /\ a.amount \in {None, Some(Amt(1))}}
    \cup {a \in Action : a.client_id = 2 /\ a.kind = "Dispute"}

RECURSIVE SeqsUpTo(_, _)
SeqsUpTo(S, n) ==
    IF n = 0 THEN {<<>>}
    ELSE LET shorter == SeqsUpTo(S, n - 1)
         IN shorter \cup {Append(q, x) : q \in shorter, x \in S}

InitAll ==
    /\ InitStore /\ NoThreads
    /\ input \in SeqsUpTo(InputAction, MaxLen)
    /\ pos = 1
    /\ run = "running"

\* one iteration of the for loop: self.process(action)?
ProcessAllStep ==
    /\ run = "running"
    /\ pos <= Len(input)
    /\ LET u == update(store, input[pos]) IN
        /\ accounts' = u.accounts
        /\ transactions' = u.transactions
        /\ IF process(u.result) = "Ok"
           THEN pos' = pos + 1 /\ run' = run
           ELSE pos' = pos /\ run' = "returned_err"
    /\ UNCHANGED <<input, histVars, mtVars>>

\* the iterator is exhausted: Ok(())
ProcessAllReturn ==
    /\ run = "running"
    /\ pos > Len(input)
    /\ run' = "done"
    /\ UNCHANGED <<storeVars, input, pos, histVars, mtVars>>

NextAll == ProcessAllStep \/ ProcessAllReturn

SpecAll == InitAll /\ [][NextAll]_vars

\* ---- MultiThreadedEngine: threads sharing the Arc<RwLock<State>> ----
OrderedActions == [i \in 1..Len(order) |-> order[i][2]]
InFlight == Len(order) + Cardinality({t \in Threads : pc[t] = "waiting"})

\* the actions the threads submit: one of each kind, on client 1
ProducerAction ==
    { MkAction("Deposit", 1, 1, Some(Amt(1))),
      MkAction("Withdrawal", 1, 2, Some(Amt(1))),
      MkAction("Dispute", 1, 1, None),
      MkAction("Resolve", 1, 1, None),
      MkAction("Chargeback", 1, 1, None) }

InitMT ==
    /\ InitStore /\ NoDriver /\ NoThreads

\* a thread calls process(action) and reaches self.state.write()
MTSubmit(t) ==
    /\ pc[t] = "idle"
    /\ InFlight < MaxSubmit
    /\ \E a \in ProducerAction : pending' = [pending EXCEPT ![t] = Some(a)]
    /\ pc' = [pc EXCEPT ![t] = "waiting"]
    /\ UNCHANGED <<storeVars, histVars, driverVars, guard, order>>

\* write() returns the guard
MTAcquire(t) ==
    /\ pc[t] = "waiting"
    /\ write(guard)
    /\ guard' = t
    /\ pc' = [pc EXCEPT ![t] = "locked"]
    /\ order' = Append(order, <<t, pending[t][1]>>)
    /\ UNCHANGED <<storeVars, histVars, driverVars, pending>>

\* let _ = state.update(action)
MTUpdate(t) ==
    /\ pc[t] = "locked"
    /\ LET u == update(store, pending[t][1]) IN
        /\ accounts' = u.accounts
        /\ transactions' = u.transactions
    /\ pc' = [pc EXCEPT ![t] = "updated"]
    /\ UNCHANGED <<histVars, driverVars, guard, pending, order>>

\* process returns Ok(()) and the guard is dropped
MTRelease(t) ==
    /\ pc[t] = "updated"
    /\ guard' = 0
    /\ pc' = [pc EXCEPT ![t] = "idle"]
    /\ pending' = [pending EXCEPT ![t] = None]
    /\ UNCHANGED <<storeVars, histVars, driverVars, order>>

NextMT == \E t \in Threads : MTSubmit(t) \/ MTAcquire(t) \/ MTUpdate(t) \/ MTRelease(t)

SpecMT == InitMT /\ [][NextMT]_vars

\* ---- what the last call was about ----
Acted == action # None
act == action[1]
IsKind(ks) == Acted /\ act.kind \in ks
\* the transaction the last call named, as it was before the call
Targeted == Acted /\ act.transaction_id \in DOMAIN pre.transactions
target == pre.transactions[act.transaction_id]
HasAmount == Acted /\ act.amount # None

\* C1: every account has available >= 0 and held >= 0 in every reachable state
NonNegativeBalances ==
    \A c \in DOMAIN accounts : accounts[c].available >= 0 /\ accounts[c].held >= 0

\* C1 witness: an account with funds on hold whose client had a withdrawal
\* refused for insufficient funds
C1_Witness ==
    \E c \in DOMAIN accounts, t \in DOMAIN transactions :
        /\ accounts[c].held > 0
        /\ transactions[t].client = c
        /\ transactions[t].state = Failed(InsufficientFunds)
        /\ is_sign_negative(transactions[t].amount)

\* C2: an account that was locked when a call started is the same after the
\* call, whatever the action: available, held and the locked flag are unchanged
LockedAccountFrozen ==
    \A c \in DOMAIN pre.accounts :
        pre.accounts[c].locked => c \in DOMAIN accounts /\ accounts[c] = pre.accounts[c]

\* C2 witness: a deposit of a positive amount was applied to a locked account
C2_Witness ==
    /\ IsKind({"Deposit"}) /\ HasAmount /\ result = "Ok"
    /\ Val(act.amount[1]) > 0
    /\ act.client_id \in DOMAIN pre.accounts
    /\ pre.accounts[act.client_id].locked
    /\ act.transaction_id \notin DOMAIN pre.transactions

\* C3: a Deposit or Withdrawal with an amount whose transaction id is already
\* recorded returns TransactionUsed and leaves accounts and transactions as
\* they were
UsedIdRejected ==
    (IsKind({"Deposit", "Withdrawal"}) /\ HasAmount /\ Targeted)
        => result = TransactionUsed /\ store = pre

\* C3 witness: the id was consumed by a failed transaction and the rejected
\* action names a client that has no account
C3_Witness ==
    /\ IsKind({"Deposit", "Withdrawal"}) /\ HasAmount /\ Targeted
    /\ target.state \in {Failed(e) : e \in AccountError}
    /\ act.client_id \notin DOMAIN pre.accounts
    /\ result = TransactionUsed

\* C4: a Resolve or Chargeback that targets an existing transaction whose state
\* is not Disputed returns Ok and changes no account and no transaction,
\* whatever client id it carries
NoOpOnNonDisputed ==
    (IsKind({"Resolve", "Chargeback"}) /\ Targeted /\ target.state # Disputed)
        => result = "Ok" /\ store = pre

\* C4 witness: a Chargeback by the owner on a Succeeded deposit whose funds
\* are still available
C4_Witness ==
    /\ IsKind({"Chargeback"}) /\ Targeted
    /\ target.state = Succeeded
    /\ target.client = act.client_id
    /\ Val(target.amount) > 0
    /\ pre.accounts[act.client_id].available >= Val(target.amount)
    /\ result = "Ok"

\* C5: when State::update returns an error the store is as before the call
ErrorLeavesStore == result # "Ok" => store = pre

\* C5 witness: a Withdrawal without an amount for a client that has no account
C5_Witness ==
    /\ IsKind({"Withdrawal"})
    /\ result = NoAmount
    /\ act.client_id \notin DOMAIN pre.accounts
    /\ DOMAIN pre.transactions # {}

\* C6: a Dispute, Resolve or Chargeback whose client id differs from the owner
\* of the targeted transaction changes nothing, and the Dispute returns
\* ClientMismatch
ForeignClientChangesNothing ==
    (IsKind({"Dispute", "Resolve", "Chargeback"}) /\ Targeted
        /\ act.client_id # target.client)
        => /\ store = pre
           /\ act.kind = "Dispute" => result = ClientMismatch

\* C6 witness: a Dispute of a Succeeded deposit by another client, who has an
\* account with enough available funds for the hold
C6_Witness ==
    /\ IsKind({"Dispute"}) /\ Targeted
    /\ act.client_id # target.client
    /\ target.state = Succeeded
    /\ Val(target.amount) > 0
    /\ act.client_id \in DOMAIN pre.accounts
    /\ pre.accounts[act.client_id].available >= Val(target.amount)
    /\ result = ClientMismatch

\* C7: at most one thread is between acquiring and dropping the write guard,
\* and it is the guard's holder; the store is what applying the actions one at
\* a time in lock-acquisition order gives (up to the holder's action while its
\* update is still to run)
Holders == {t \in Threads : pc[t] \in {"locked", "updated"}}
UpdatesSerialized ==
    /\ Cardinality(Holders) <= 1
    /\ \A t \in Holders : guard = t
    /\ IF \E t \in Threads : pc[t] = "locked"
       THEN store = ApplyAll(NewState, SubSeq(OrderedActions, 1, Len(order) - 1))
       ELSE store = ApplyAll(NewState, OrderedActions)

\* C7 witness: two threads' updates that do not commute have run, the second
\* thread holds the guard with its update done and the first waits in write()
\* with its next action
C7_Witness ==
    /\ Len(order) = 2
    /\ order[1][1] # order[2][1]
    /\ ApplyAll(NewState, <<order[1][2], order[2][2]>>)
          # ApplyAll(NewState, <<order[2][2], order[1][2]>>)
    /\ guard = order[2][1]
    /\ pc[guard] = "updated"
    /\ pc[order[1][1]] = "waiting"
    /\ store = ApplyAll(NewState, OrderedActions)

\* C8: process_all never returns an error; the store is the result of applying,
\* in order, every action before pos; and it returns only when all of the input
\* has been applied
ProcessAllAppliesAll ==
    /\ run # "returned_err"
    /\ pos \in 1..(Len(input) + 1)
    /\ store = ApplyAll(NewState, SubSeq(input, 1, pos - 1))
    /\ run = "done" => pos = Len(input) + 1

\* C8 witness: process_all has returned after an input in which State::update
\* rejected an action and a later action changed the store
C8_Witness ==
    /\ run = "done"
    /\ \E i \in 1..Len(input), j \in 1..Len(input) :
        /\ i < j
        /\ update(ApplyAll(NewState, SubSeq(input, 1, i - 1)), input[i]).result # "Ok"
        /\ ApplyAll(NewState, SubSeq(input, 1, j)) # ApplyAll(NewState, SubSeq(input, 1, j - 1))
    /\ store = ApplyAll(NewState, input)

\* C9: from any reachable store, for a Succeeded transaction with a positive
\* stored amount a whose owner's account is unlocked with available >= a,
\* Dispute then Resolve by the owner both return Ok, pass through Disputed with
\* a on hold, and give back the store as it was; and deposit 1.5, dispute,
\* resolve, withdraw 1.0 (in units of 0.5) ends with available 0.5, held 0,
\* not locked
DisputeResolveRoundTrip ==
    /\ \A t \in DOMAIN transactions :
        LET tx == transactions[t]
            c == tx.client
            d == update(store, MkAction("Dispute", c, t, None))
            r == update(StoreOf(d), MkAction("Resolve", c, t, None))
        IN (/\ tx.state = Succeeded
            /\ is_sign_positive(tx.amount)
            /\ c \in DOMAIN accounts
            /\ ~accounts[c].locked
            /\ accounts[c].available >= Val(tx.amount))
           => /\ d.result = "Ok"
              /\ d.transactions[t].state = Disputed
              /\ d.accounts[c].held = accounts[c].held + Val(tx.amount)
              /\ d.accounts[c].available = accounts[c].available - Val(tx.amount)
              /\ r.result = "Ok"
              /\ StoreOf(r) = store
    /\ LET end == ApplyAll(NewState,
                    << MkAction("Deposit", 1, 1, Some(Amt(3))),
                       MkAction("Dispute", 1, 1, None),
                       MkAction("Resolve", 1, 1, None),
                       MkAction("Withdrawal", 1, 2, Some(Amt(2))) >>)
       IN /\ end.accounts[1] = [available |-> 1, held |-> 0, locked |-> FALSE]
          /\ end.transactions[1].state = Succeeded
          /\ end.transactions[2].state = Succeeded

\* C9 witness: a Resolve by the owner has just released a disputed deposit,
\* the transaction is Succeeded again and its funds are back in available
C9_Witness ==
    /\ IsKind({"Resolve"}) /\ Targeted
    /\ target.state = Disputed
    /\ Val(target.amount) > 0
    /\ transactions[act.transaction_id].state = Succeeded
    /\ accounts[act.client_id].held = pre.accounts[act.client_id].held - Val(target.amount)
    /\ accounts[act.client_id].available =
          pre.accounts[act.client_id].available + Val(target.amount)

\* C10: from any reachable store a Chargeback by the owner on a Disputed
\* transaction returns Ok and leaves the account locked; when the owner has two
\* Disputed transactions the second chargeback fails as Locked and the account
\* stays locked with the second hold in place; a Deposit or Withdrawal with an
\* amount and a fresh id for a locked account is recorded as Failed(Locked) and
\* leaves the account as it was; and deposit 1.5, dispute, chargeback,
\* withdraw 1.0 (in units of 0.5) ends with available 0, held 0, locked
ChargebackLocks ==
    /\ \A a \in Chargebacks :
        LET u == update(store, a) IN
        (/\ a.transaction_id \in DOMAIN transactions
         /\ transactions[a.transaction_id].state = Disputed
         /\ transactions[a.transaction_id].client = a.client_id)
        => /\ u.result = "Ok"
           /\ u.accounts[a.client_id].locked
           /\ u.transactions[a.transaction_id].state \in {Cancelled, Failed(Locked)}
    /\ \A t1 \in DOMAIN transactions, t2 \in DOMAIN transactions :
        LET c == transactions[t1].client
            first == update(store, MkAction("Chargeback", c, t1, None))
            second == update(StoreOf(first), MkAction("Chargeback", c, t2, None))
        IN (/\ t1 # t2
            /\ transactions[t1].state = Disputed
            /\ transactions[t2].state = Disputed
            /\ transactions[t2].client = c
            /\ ~accounts[c].locked)
           => /\ first.transactions[t1].state = Cancelled
              /\ second.result = "Ok"
              /\ second.transactions[t2].state = Failed(Locked)
              /\ second.accounts[c] = first.accounts[c]
              /\ second.accounts[c].locked
    /\ (/\ IsKind({"Deposit", "Withdrawal"}) /\ HasAmount /\ ~Targeted
        /\ act.client_id \in DOMAIN pre.accounts
        /\ pre.accounts[act.client_id].locked)
       => /\ result = "Ok"
          /\ transactions[act.transaction_id].state = Failed(Locked)
          /\ accounts[act.client_id] = pre.accounts[act.client_id]
    /\ LET end == ApplyAll(NewState,
                    << MkAction("Deposit", 1, 1, Some(Amt(3))),
                       MkAction("Dispute", 1, 1, None),
                       MkAction("Chargeback", 1, 1, None),
                       MkAction("Withdrawal", 1, 2, Some(Amt(2))) >>)
       IN /\ end.accounts[1] = [available |-> 0, held |-> 0, locked |-> TRUE]
          /\ end.transactions[1].state = Cancelled
          /\ end.transactions[2].state = Failed(Locked)

\* C10 witness: after a chargeback cancelled a deposit of the client and locked
\* the account, a Deposit or Withdrawal with a fresh id that an unlocked
\* account would have accepted was recorded as Failed(Locked)
C10_Witness ==
    /\ IsKind({"Deposit", "Withdrawal"}) /\ HasAmount /\ ~Targeted
    /\ act.client_id \in DOMAIN pre.accounts
    /\ pre.accounts[act.client_id].locked
    /\ LET unlocked == [pre.accounts[act.client_id] EXCEPT !.locked = FALSE]
       IN (IF act.kind = "Deposit" THEN deposit(unlocked, act.amount[1])
                                   ELSE withdraw(unlocked, act.amount[1])).res = "Ok"
    /\ transactions[act.transaction_id].state = Failed(Locked)
    /\ accounts[act.client_id] = pre.accounts[act.client_id]
    /\ \E t \in DOMAIN pre.transactions :
         pre.transactions[t].client = act.client_id /\ pre.transactions[t].state = Cancelled

\* the account a Deposit or Withdrawal works on: the client's, or the default
\* one when the client has none yet
preAccount == or_default(pre.accounts, act.client_id)

\* C11: a Deposit or Withdrawal never changes any account's held; one with an
\* amount and an unused id that is recorded Succeeded moves available by
\* exactly its amount (up for a Deposit, down for a Withdrawal) and any other
\* leaves available as it was; a Withdrawal is recorded Succeeded exactly when
\* the account is unlocked, the amount's sign is not negative and the amount is
\* at most available; and deposit 1.5, dispute, deposit 3.0, withdraw 1.0 (in
\* units of 0.5) ends with available 2.0, held 1.5
AvailableOnly ==
    /\ IsKind({"Deposit", "Withdrawal"}) =>
        /\ \A c \in DOMAIN accounts :
              accounts[c].held = or_default(pre.accounts, c).held
        /\ (HasAmount /\ ~Targeted) =>
            LET amount == act.amount[1]
                ok == transactions[act.transaction_id].state = Succeeded
                after == accounts[act.client_id]
            IN /\ (act.kind = "Deposit" /\ ok) =>
                      after.available = preAccount.available + Val(amount)
               /\ (act.kind = "Withdrawal" /\ ok) =>
                      after.available = preAccount.available - Val(amount)
               /\ ~ok => after.available = preAccount.available
               /\ act.kind = "Withdrawal" =>
                      (ok <=> /\ ~preAccount.locked
                              /\ ~is_sign_negative(amount)
                              /\ Val(amount) <= preAccount.available)
        /\ ~(HasAmount /\ ~Targeted) => accounts = pre.accounts
    /\ LET end == ApplyAll(NewState,
                    << MkAction("Deposit", 1, 1, Some(Amt(3))),
                       MkAction("Dispute", 1, 1, None),
                       MkAction("Deposit", 1, 2, Some(Amt(6))),
                       MkAction("Withdrawal", 1, 3, Some(Amt(2))) >>)
       IN /\ end.accounts[1] = [available |-> 4, held |-> 3, locked |-> FALSE]
          /\ end.transactions[1].state = Disputed
          /\ end.transactions[2].state = Succeeded
          /\ end.transactions[3].state = Succeeded

\* C11 witness: while a dispute holds funds of the client, a Deposit of a
\* positive amount has succeeded, and from this state a Withdrawal of one unit
\* under a fresh id succeeds out of available alone while one of more than
\* available, but no more than the total, is refused
C11_Witness ==
    /\ IsKind({"Deposit"}) /\ HasAmount /\ ~Targeted
    /\ Val(act.amount[1]) > 0
    /\ transactions[act.transaction_id].state = Succeeded
    /\ preAccount.held > 0
    /\ \E t \in DOMAIN pre.transactions :
          pre.transactions[t].client = act.client_id /\ pre.transactions[t].state = Disputed
    /\ LET c == act.client_id
           w == update(store, MkAction("Withdrawal", c, 3, Some(Amt(1))))
           x == update(store, MkAction("Withdrawal", c, 3,
                                       Some(Amt(accounts[c].available + 1))))
       IN /\ w.transactions[3].state = Succeeded
          /\ w.accounts[c].available = accounts[c].available - 1
          /\ w.accounts[c].held = accounts[c].held
          /\ accounts[c].available + 1 <= total_funds(accounts[c])
          /\ x.transactions[3].state = Failed(InsufficientFunds)
          /\ x.accounts[c] = accounts[c]

\* transaction ids no transaction is recorded under: the unused ones of the
\* model and one that no action of the model carries
UnusedIds == (TransactionId \cup {3}) \ DOMAIN transactions

\* C12: from any reachable store, for a client without an account, a Deposit
\* of d and then a Withdrawal of w under two unused ids that are both recorded
\* Succeeded have w <= d and leave the account with available = d - w,
\* held = 0, total = d - w, not locked, the deposit stored with amount d and
\* the withdrawal with amount -w
SignConvention ==
    \A c \in ClientId \ DOMAIN accounts : \A t1 \in UnusedIds, d \in Amount :
        LET dep == update(store, MkAction("Deposit", c, t1, Some(d)))
        IN dep.transactions[t1].state = Succeeded =>
            \A t2 \in UnusedIds \ {t1}, w \in Amount :
                LET wd == update(StoreOf(dep), MkAction("Withdrawal", c, t2, Some(w)))
                IN wd.transactions[t2].state = Succeeded
                   => /\ Val(w) <= Val(d)
                      /\ wd.accounts[c].available = Val(d) - Val(w)
                      /\ wd.accounts[c].held = 0
                      /\ total_funds(wd.accounts[c]) = Val(d) - Val(w)
                      /\ ~wd.accounts[c].locked
                      /\ wd.transactions[t1] = Transaction(t1, c, Succeeded, d)
                      /\ wd.transactions[t2] = Transaction(t2, c, Succeeded, Negate(w))
                      /\ Val(wd.transactions[t2].amount) = 0 - Val(w)

\* C12 witness: the second call of a behaviour was a successful Withdrawal of
\* a positive w that followed the successful Deposit of a larger d which
\* created the client's account
C12_Witness ==
    /\ steps = 2
    /\ IsKind({"Withdrawal"}) /\ HasAmount /\ ~Targeted
    /\ Val(act.amount[1]) > 0
    /\ transactions[act.transaction_id] =
          Transaction(act.transaction_id, act.client_id, Succeeded, Negate(act.amount[1]))
    /\ \E t \in DOMAIN pre.transactions :
          /\ pre.transactions[t].client = act.client_id
          /\ pre.transactions[t].state = Succeeded
          /\ is_sign_positive(pre.transactions[t].amount)
          /\ Val(pre.transactions[t].amount) > Val(act.amount[1])
          /\ accounts[act.client_id] =
                [available |-> Val(pre.transactions[t].amount) - Val(act.amount[1]),
                 held |-> 0, locked |-> FALSE]

\* the structural error the last call's action meets in the store it was
\* applied to, "Ok" if none
Structural ==
    IF act.kind \in {"Deposit", "Withdrawal"}
    THEN IF ~HasAmount THEN NoAmount
         ELSE IF Targeted THEN TransactionUsed
         ELSE "Ok"
    ELSE IF ~Targeted THEN TransactionMissing
         ELSE IF act.kind # "Dispute" /\ target.state # Disputed THEN "Ok"
         ELSE IF act.client_id # target.client THEN ClientMismatch
         ELSE IF act.client_id \notin DOMAIN pre.accounts THEN AccountMissing
         ELSE "Ok"

\* the account operation the last call attempted, as a set: its outcome, or
\* nothing when the call attempted none
Attempted ==
    IF ~Acted \/ Structural # "Ok" THEN {}
    ELSE CASE act.kind = "Deposit" -> {deposit(preAccount, act.amount[1])}
           [] act.kind = "Withdrawal" -> {withdraw(preAccount, act.amount[1])}
           [] act.kind = "Dispute" ->
                IF is_sign_positive(target.amount)
                THEN {hold(preAccount, target.amount)} ELSE {}
           [] act.kind = "Resolve" ->
                IF target.state = Disputed
                THEN {release(preAccount, target.amount)} ELSE {}
           [] act.kind = "Chargeback" ->
                IF target.state = Disputed
                THEN {chargeback(preAccount, target.amount)} ELSE {}

\* C13: State::update returns Ok or one of the five UpdateErrors, and an error
\* exactly in the structural case it names; whenever the account operation of
\* the call fails, the call returns Ok and the transaction's state is
\* Failed(reason) with the operation's error as the reason
TwoTierErrors ==
    /\ result \in {"Ok"} \cup UpdateError
    /\ Acted =>
        /\ result = Structural
        /\ \A r \in Attempted :
              r.res # "Ok" =>
                /\ r.res \in AccountError
                /\ result = "Ok"
                /\ transactions[act.transaction_id].state = Failed(r.res)

\* C13 witness: a Dispute by the owner of a Succeeded deposit whose funds are
\* no longer available: the hold failed, the call returned Ok and the
\* transaction is Failed(InsufficientFunds)
C13_Witness ==
    /\ IsKind({"Dispute"}) /\ Targeted
    /\ target.state = Succeeded
    /\ Attempted = {AErr(preAccount, InsufficientFunds)}
    /\ result = "Ok"
    /\ transactions[act.transaction_id].state = Failed(InsufficientFunds)

\* the state C14 gives the transaction of a Deposit or Withdrawal
ExpectedState ==
    IF preAccount.locked THEN Failed(Locked)
    ELSE IF is_sign_negative(act.amount[1]) THEN Failed(NegativeAmount)
    ELSE IF act.kind = "Withdrawal" /\ Val(act.amount[1]) > preAccount.available
         THEN Failed(InsufficientFunds)
    ELSE Succeeded

\* C14: a Deposit or Withdrawal with an amount and an unused id returns Ok and
\* records under that id a transaction owned by the action's client, with the
\* amount (negated for a Withdrawal) and the state Succeeded when the account
\* operation succeeded and else Failed(reason): Locked if the account is
\* locked, else NegativeAmount if the amount's sign is negative, else
\* InsufficientFunds; the account changes exactly when the state is Succeeded
\* with a nonzero amount; and every Deposit or Withdrawal with an amount under
\* that id is then rejected with TransactionUsed and changes nothing
AlwaysRecorded ==
    (IsKind({"Deposit", "Withdrawal"}) /\ HasAmount /\ ~Targeted) =>
        LET t == act.transaction_id
            amount == act.amount[1]
        IN /\ result = "Ok"
           /\ DOMAIN transactions = DOMAIN pre.transactions \cup {t}
           /\ transactions[t] =
                Transaction(t, act.client_id, ExpectedState,
                            IF act.kind = "Deposit" THEN amount ELSE Negate(amount))
           /\ \A r \in Attempted : (r.res = "Ok") <=> (ExpectedState = Succeeded)
           /\ ExpectedState # Succeeded => accounts[act.client_id] = preAccount
           /\ (ExpectedState = Succeeded /\ Val(amount) # 0)
                 => accounts[act.client_id] # preAccount
           /\ \A a \in Deposits \cup Withdrawals :
                (a.transaction_id = t /\ a.amount # None) =>
                    LET u == update(store, a)
                    IN u.result = TransactionUsed /\ StoreOf(u) = store

\* C14 witness: a Deposit of a negative amount under an unused id for a locked
\* account was recorded as Failed(Locked), not as Failed(NegativeAmount)
C14_Witness ==
    /\ IsKind({"Deposit"}) /\ HasAmount /\ ~Targeted
    /\ is_sign_negative(act.amount[1])
    /\ act.client_id \in DOMAIN pre.accounts
    /\ pre.accounts[act.client_id].locked
    /\ result = "Ok"
    /\ transactions[act.transaction_id] =
          Transaction(act.transaction_id, act.client_id, Failed(Locked), act.amount[1])

\* C15: a Dispute by the owning client of a transaction that a Withdrawal (of
\* any amount, succeeded or failed) has just recorded returns Ok and changes no
\* account and no transaction, so that the transaction does not become
\* Disputed and no funds are held for it
WithdrawalDisputeNoOp ==
    (IsKind({"Withdrawal"}) /\ HasAmount /\ ~Targeted) =>
        LET t == act.transaction_id
            u == update(store, MkAction("Dispute", act.client_id, t, None))
        IN /\ u.result = "Ok"
           /\ StoreOf(u) = store
           /\ u.transactions[t].state # Disputed
           /\ u.accounts[act.client_id].held = accounts[act.client_id].held

\* the last call was a Withdrawal with an amount and an unused id for a client
\* that had no account
WithdrawalWithoutAccount ==
    /\ IsKind({"Withdrawal"}) /\ HasAmount /\ ~Targeted
    /\ act.client_id \notin DOMAIN pre.accounts

RECURSIVE SumAmounts(_, _)
SumAmounts(txs, ids) ==
    IF ids = {} THEN 0
    ELSE LET t == CHOOSE x \in ids : TRUE
         IN Val(txs[t].amount) + SumAmounts(txs, ids \ {t})

\* the transactions of client c that are Disputed
DisputedOf(c) ==
    {t \in DOMAIN transactions :
        transactions[t].client = c /\ transactions[t].state = Disputed}

\* C17: in every reachable state each account's held equals the sum of the
\* amounts of its client's Disputed transactions, so held is 0 when the client
\* has no Disputed transaction
HeldIsDisputedSum ==
    \A c \in DOMAIN accounts :
        accounts[c].held = SumAmounts(transactions, DisputedOf(c))

\* C18: a transaction whose state was Failed(reason) when a call started has
\* the same state after the call, whatever the action
FailedIsTerminal ==
    \A t \in DOMAIN pre.transactions :
        pre.transactions[t].state \in {Failed(e) : e \in AccountError}
            => /\ t \in DOMAIN transactions
               /\ transactions[t].state = pre.transactions[t].state

\* C19: a transaction whose state was Cancelled when a call started is
\* Cancelled after the call, and the account of its client, which the
\* chargeback locked, has the available and held it had
CancelledIsFinal ==
    \A t \in DOMAIN pre.transactions :
        pre.transactions[t].state = Cancelled
            => /\ t \in DOMAIN transactions
               /\ transactions[t].state = Cancelled
               /\ accounts[pre.transactions[t].client] =
                     pre.accounts[pre.transactions[t].client]

\* C20: a call changes at most the account of its action's client and the
\* transaction under its action's id: every other account and transaction is
\* as before the call, no account and no transaction is removed, at most that
\* account and that transaction are added, and a transaction that existed
\* before the call keeps its id, client and amount
UpdateFrame ==
    Acted =>
        /\ DOMAIN pre.accounts \subseteq DOMAIN accounts
        /\ DOMAIN accounts \subseteq DOMAIN pre.accounts \cup {act.client_id}
        /\ \A c \in DOMAIN pre.accounts :
              c # act.client_id => accounts[c] = pre.accounts[c]
        /\ DOMAIN pre.transactions \subseteq DOMAIN transactions
        /\ DOMAIN transactions \subseteq DOMAIN pre.transactions \cup {act.transaction_id}
        /\ \A t \in DOMAIN pre.transactions :
              /\ t # act.transaction_id => transactions[t] = pre.transactions[t]
              /\ transactions[t].id = pre.transactions[t].id
              /\ transactions[t].client = pre.transactions[t].client
              /\ transactions[t].amount = pre.transactions[t].amount
        /\ \A t \in DOMAIN transactions : transactions[t].id = t

\* C20 witness: a Dispute by the owner has moved funds to held and set its
\* transaction to Disputed while the store holds another client's account
\* with funds and that client's transaction
C20_Witness ==
    /\ IsKind({"Dispute"}) /\ Targeted
    /\ target.state = Succeeded
    /\ transactions[act.transaction_id].state = Disputed
    /\ accounts[act.client_id].held > pre.accounts[act.client_id].held
    /\ \E c \in DOMAIN accounts, t \in DOMAIN transactions :
          /\ c # act.client_id
          /\ t # act.transaction_id
          /\ transactions[t].client = c
          /\ accounts[c].available > 0

\* C21: in every reachable state the client of every recorded transaction has
\* an account, and no call returns AccountMissing
OwnerHasAccount ==
    /\ \A t \in DOMAIN transactions : transactions[t].client \in DOMAIN accounts
    /\ result # AccountMissing

\* C21 witness: a Dispute by the owner has got past the account lookup for a
\* transaction that failed when it was recorded, as the first one of a client
\* that had no account
C21_Witness ==
    /\ IsKind({"Dispute"}) /\ Targeted
    /\ act.client_id = target.client
    /\ \A t \in DOMAIN pre.transactions :
          pre.transactions[t].client = act.client_id => t = act.transaction_id
    /\ target.state \in {Failed(e) : e \in AccountError}
    /\ act.client_id \in DOMAIN pre.accounts
    /\ result = "Ok"

\* C22: in every reachable state available + held of each account equals what
\* the client's calls have settled (its succeeded deposits, less its succeeded
\* withdrawals and chargebacks), and a client without an account has settled
\* nothing; a Dispute, a Resolve, and every call that returned an error or
\* whose account operation failed leave available + held of every account as
\* it was
FundsConserved ==
    /\ \A c \in ClientId :
          settled[c] = IF c \in DOMAIN accounts THEN total_funds(accounts[c]) ELSE 0
    /\ (Acted /\ \/ act.kind \in {"Dispute", "Resolve"}
                 \/ result # "Ok"
                 \/ \E r \in Attempted : r.res # "Ok")
        => \A c \in DOMAIN accounts :
              total_funds(accounts[c]) = total_funds(or_default(pre.accounts, c))

\* C22 witness: a chargeback has succeeded for a client with a second
\* succeeded deposit, and available + held has dropped by the amount charged
\* back to what the calls have settled, the amount of the second deposit
C22_Witness ==
    /\ IsKind({"Chargeback"}) /\ Targeted
    /\ target.state = Disputed
    /\ transactions[act.transaction_id].state = Cancelled
    /\ Val(target.amount) > 0
    /\ total_funds(accounts[act.client_id])
          = total_funds(pre.accounts[act.client_id]) - Val(target.amount)
    /\ settled[act.client_id] = total_funds(accounts[act.client_id])
    /\ \E t \in DOMAIN transactions :
          /\ t # act.transaction_id
          /\ transactions[t] = Transaction(t, act.client_id, Succeeded,
                                           Amt(settled[act.client_id]))
          /\ settled[act.client_id] > 0

\* C23: in every reachable state each account's held is at least the sum of
\* the amounts of its client's Disputed transactions; the release or
\* chargeback of a Resolve or Chargeback by the owner on a Disputed
\* transaction succeeds or fails with Locked, and fails exactly when the
\* account is locked; and when the owner has two Disputed transactions and an
\* unlocked account, after the Chargeback of one the Resolve of the other is
\* recorded as Failed(Locked)
HeldCoversDisputes ==
    /\ \A c \in DOMAIN accounts :
          accounts[c].held >= SumAmounts(transactions, DisputedOf(c))
    /\ (IsKind({"Resolve", "Chargeback"}) /\ Targeted
          /\ target.state = Disputed /\ act.client_id = target.client)
        => /\ Attempted # {}
           /\ \A r \in Attempted :
                /\ r.res \in {"Ok", Locked}
                /\ (r.res = Locked) <=> preAccount.locked
           /\ transactions[act.transaction_id].state \in
                {Succeeded, Cancelled, Failed(Locked)}
    /\ \A t1 \in DOMAIN transactions, t2 \in DOMAIN transactions :
        LET c == transactions[t1].client
            first == update(store, MkAction("Chargeback", c, t1, None))
            second == update(StoreOf(first), MkAction("Resolve", c, t2, None))
        IN (/\ t1 # t2
            /\ transactions[t1].state = Disputed
            /\ transactions[t2].state = Disputed
            /\ transactions[t2].client = c
            /\ ~accounts[c].locked)
           => /\ first.transactions[t1].state = Cancelled
              /\ second.result = "Ok"
              /\ second.transactions[t2].state = Failed(Locked)
              /\ second.accounts[c].held >= Val(transactions[t2].amount)

\* C23 witness: a Dispute has put a second deposit of the client on hold, held
\* is the sum of the two Disputed amounts, and from this state the Chargeback
\* of the one leaves the Resolve of the other to fail as Locked
C23_Witness ==
    /\ IsKind({"Dispute"}) /\ Targeted
    /\ transactions[act.transaction_id].state = Disputed
    /\ Val(target.amount) > 0
    /\ \E t \in DisputedOf(act.client_id) :
          /\ t # act.transaction_id
          /\ Val(transactions[t].amount) > 0
          /\ accounts[act.client_id].held =
                Val(transactions[t].amount) + Val(target.amount)
          /\ ApplyAll(store, << MkAction("Chargeback", act.client_id, t, None),
                                MkAction("Resolve", act.client_id,
                                         act.transaction_id, None) >>)
                .transactions[act.transaction_id].state = Failed(Locked)

\* the actions that name another client and another transaction id than the
\* last call's action
Independent ==
    {b \in Action : b.client_id # act.client_id /\ b.transaction_id # act.transaction_id}

\* C24: for the store a call started from, its action a and every action b
\* that names another client and another transaction id: a then b and b then a
\* end in the same store, and a and b each return the same result in either
\* order
IndependentActionsCommute ==
    Acted => \A b \in Independent :
        LET ab == update(store, b)
            b1 == update(pre, b)
            ba == update(StoreOf(b1), act)
        IN /\ StoreOf(ab) = StoreOf(ba)
           /\ ab.result = b1.result
           /\ ba.result = result

\* C24 witness: a Dispute by the owner has put a deposit on hold, and another
\* client's Dispute of its own deposit under another id changes the store too,
\* before it as well as after it
C24_Witness ==
    /\ IsKind({"Dispute"}) /\ Targeted
    /\ target.state = Succeeded
    /\ transactions[act.transaction_id].state = Disputed
    /\ Val(target.amount) > 0
    /\ \E b \in Independent :
          /\ b.kind = "Dispute"
          /\ b.client_id \in DOMAIN pre.accounts
          /\ pre.accounts[b.client_id].held = 0
          /\ update(pre, b).accounts[b.client_id].held > 0
          /\ update(store, b).accounts[b.client_id].held > 0
          /\ update(store, b).accounts[act.client_id].held > 0
          /\ StoreOf(update(store, b)) = ApplyAll(pre, <<b, act>>)

====
